---------------------------- MODULE Spec2Model ----------------------------
(***************************************************************************)
(* A model of goitsfive (src/main.go): the SVG path-data reader            *)
(* (SVGDReader), the path command model and its Linearize fold, the        *)
(* builders PolygonFromPathElement, PolygonFromRectElement and             *)
(* PolygonFromPolygonElement, the color parser ParseColor and the tree     *)
(* walk ExtractPolygons.                                                   *)
(*                                                                         *)
(* Strings are sequences of one-character strings.  In the program run as  *)
(* a whole (Spec, WalkSpec) a float64 coordinate is an exact rational      *)
(* <<n, d>> in lowest terms (d > 0): the rounding of coordinate arithmetic *)
(* is not modelled there.  The loop counter of the curve sampler is        *)
(* modelled bit-exactly as a float64, because its rounding decides how     *)
(* many samples the loop takes; and so are the products and sums of        *)
(* Ring.Area where it is run by itself (AreaSpec), because their rounding  *)
(* decides its sign and its value.  ParseColor by itself is ColorSpec.     *)
(***************************************************************************)
EXTENDS Integers, Sequences, FiniteSets, TLC

VARIABLES
    stack,      \* ExtractPolygons: stack []*svgparser.Element
    ret,        \* ExtractPolygons: ret []Polygon
    xerr,       \* ExtractPolygons: the returned err
    el,         \* ExtractPolygons: the element popped last
    pc,         \* the position of the program
    reader,     \* PolygonFromPathElement: dreader (a strings.Reader)
    cmd,        \* Parse: cmd
    x,          \* Parse: x
    y,          \* Parse: y
    c,          \* Parse: c (six floats)
    i,          \* Parse: the index of the curve-argument loop
    parts,      \* Parse: parts
    err,        \* Parse: err
    chomp,      \* the last lexer call: its name, the reader before and after, its results
    exterior,   \* SVGDParts.Linearize: ret, then poly.Exterior
    k,          \* SVGDParts.Linearize: the index of the range loop
    starts,     \* SVGDParts.Linearize: the start point handed to each part so far
    tris,       \* the builders: tris, as triples of points
    visited,    \* ExtractPolygons: the elements el has pointed to so far, in order
    fring,      \* a Ring of float64 points under winding correction
    applied,    \* the winding corrections applied to fring so far: the area seen, reversed or not
    colText,    \* ParseColor: col
    color       \* ParseColor: its result

vars == <<stack, ret, xerr, el, pc, reader, cmd, x, y, c, i, parts, err, chomp,
          exterior, k, starts, tris, visited, fring, applied, colText, color>>

-----------------------------------------------------------------------------
(* Bounds of the model. *)

\* Free-form path data: every string over Chars of at most this length.
MaxLen == 3
\* Structured path data: every concatenation of at most this many Segments.
MaxSeg == 3
\* Element trees: every ordered tree of at most this many elements.
MaxNodes == 3
\* Point lists of polygons: at most this many points.
MaxPoints == 4
\* Rings of float64 points: at most this many points.
MaxRing == 4
\* Winding correction: applied at most this many times to a ring.
MaxApply == 2
\* Color texts: every string over ColorChars of at most this length.
MaxColorLen == 4
\* The tree walk: every tree of at most this many elements (and some larger ones).
MaxWalk == 3

-----------------------------------------------------------------------------
(* Rational numbers: the values of float64 coordinates. *)

Abs(a) == IF a < 0 THEN -a ELSE a

RECURSIVE GCD(_, _)
GCD(a, b) == IF b = 0 THEN a ELSE GCD(b, a % b)

RatNorm(n, d) ==
    LET g == GCD(Abs(n), Abs(d))
        s == IF d < 0 THEN -1 ELSE 1
    IN  <<(s * n) \div g, (s * d) \div g>>

Rat(n) == <<n, 1>>
RatNeg(a) == <<-a[1], a[2]>>
\* Over the least common denominator, and with the cross factors cancelled first,
\* so that the intermediate products stay small.
RatAdd(a, b) ==
    LET g == GCD(a[2], b[2])
    IN  RatNorm(a[1] * (b[2] \div g) + b[1] * (a[2] \div g), (a[2] \div g) * b[2])
RatSub(a, b) == RatAdd(a, RatNeg(b))
RatMul(a, b) ==
    LET g1 == GCD(Abs(a[1]), b[2])
        g2 == GCD(Abs(b[1]), a[2])
    IN  RatNorm((a[1] \div g1) * (b[1] \div g2), (a[2] \div g2) * (b[2] \div g1))
RatLess(a, b) == a[1] * b[2] < b[1] * a[2]

RECURSIVE Pow10(_)
Pow10(n) == IF n = 0 THEN 1 ELSE 10 * Pow10(n - 1)

-----------------------------------------------------------------------------
(* float64 values, bit-exact.  A magnitude below 8 is the record of two     *)
(* limbs hi and lo that stands for (hi * 2^28 + lo) * 2^-56; a signed value *)
(* is a sign s (1 or -1; 1 for zero, Go comparing -0 and 0 as equal) and a  *)
(* magnitude m.  Used for the loop counter e of the curve sampler and for   *)
(* Ring.Area where its rounding matters.                                    *)

Limb == 16384 * 16384

F64Zero == [hi |-> 0, lo |-> 0]
F64One == [hi |-> Limb, lo |-> 0]

\* The unit in the last place of a float64 of this magnitude, in units of 2^-56.
F64Ulp(hi) ==
    IF hi < Limb \div 8 THEN 1
    ELSE IF hi < Limb \div 4 THEN 2
    ELSE IF hi < Limb \div 2 THEN 4
    ELSE IF hi < Limb THEN 8
    ELSE IF hi < 2 * Limb THEN 16
    ELSE IF hi < 4 * Limb THEN 32
    ELSE 64

\* Round to nearest, ties to even: what a float64 addition does to the exact sum.
F64Round(hi, lo) ==
    LET u == F64Ulp(hi)
        r == lo % u
        down == lo - r
        up == down + u
        odd == (down \div u) % 2 = 1
        v == IF 2 * r < u THEN down
             ELSE IF 2 * r > u THEN up
             ELSE IF odd THEN up ELSE down
    IN  IF v >= Limb THEN [hi |-> hi + 1, lo |-> v - Limb] ELSE [hi |-> hi, lo |-> v]

F64Add(a, b) ==
    LET lo == a.lo + b.lo
        carry == lo \div Limb
    IN  F64Round(a.hi + b.hi + carry, lo % Limb)

F64Less(a, b) == a.hi < b.hi \/ (a.hi = b.hi /\ a.lo < b.lo)

\* The rounded difference of two magnitudes, the first not the smaller.
F64Diff(a, b) ==
    LET borrow == IF a.lo < b.lo THEN 1 ELSE 0
    IN  F64Round(a.hi - b.hi - borrow, a.lo - b.lo + borrow * Limb)

\* The rounded product of two magnitudes that are multiples of 2^-28 (lo = 0):
\* the exact product of the two high limbs, taken by halves of 14 bits.
HalfLimb == 16384

F64Prod(a, b) ==
    LET a1 == a.hi \div HalfLimb
        a0 == a.hi % HalfLimb
        b1 == b.hi \div HalfLimb
        b0 == b.hi % HalfLimb
        cross == a1 * b0 + a0 * b1
        low == (cross % HalfLimb) * HalfLimb + a0 * b0
    IN  F64Round(a1 * b1 + cross \div HalfLimb + low \div Limb, low % Limb)

Float(s, m) == [s |-> IF m = F64Zero THEN 1 ELSE s, m |-> m]

FloatZero == Float(1, F64Zero)

FloatNeg(a) == Float(-a.s, a.m)

\* a + b
FloatAdd(a, b) ==
    IF a.s = b.s THEN Float(a.s, F64Add(a.m, b.m))
    ELSE IF F64Less(a.m, b.m) THEN Float(b.s, F64Diff(b.m, a.m))
    ELSE Float(a.s, F64Diff(a.m, b.m))

\* a - b
FloatSub(a, b) == FloatAdd(a, FloatNeg(b))

\* a * b, of multiples of 2^-28
FloatMul(a, b) == Float(a.s * b.s, F64Prod(a.m, b.m))

\* a < b
FloatLess(a, b) ==
    IF a.s # b.s THEN a.s < b.s
    ELSE IF a.s = 1 THEN F64Less(a.m, b.m)
    ELSE F64Less(b.m, a.m)

-----------------------------------------------------------------------------
(* Characters and strings. *)

Digits == {"0", "1", "2", "3", "4", "5", "6", "7", "8", "9"}

DigitVal(ch) ==
    CASE ch = "0" -> 0 [] ch = "1" -> 1 [] ch = "2" -> 2 [] ch = "3" -> 3
      [] ch = "4" -> 4 [] ch = "5" -> 5 [] ch = "6" -> 6 [] ch = "7" -> 7
      [] ch = "8" -> 8 [] ch = "9" -> 9

\* unicode.IsSpace, on the white space the model's inputs hold.
IsSpace(ch) == ch \in {" ", "\t", "\n", "\r"}

Nil == "nil"
EOF == "EOF"

-----------------------------------------------------------------------------
(* strings.Reader, as the io.RuneScanner of SVGDReader. *)

NewReader(s) == [s |-> s, i |-> 0, prevRune |-> -1]

\* ReadRune: the rune at the cursor, or io.EOF at the end of the string.
ReadRune(r) ==
    IF r.i >= Len(r.s)
    THEN [r |-> [r EXCEPT !.prevRune = -1], ru |-> "", err |-> EOF]
    ELSE [r |-> [r EXCEPT !.prevRune = r.i, !.i = r.i + 1],
          ru |-> r.s[r.i + 1], err |-> Nil]

\* UnreadRune: back to before the last ReadRune; an error unless a ReadRune was
\* the last operation.
UnreadRune(r) ==
    IF r.i <= 0
    THEN [r |-> r, err |-> "strings.Reader.UnreadRune: at beginning of string"]
    ELSE IF r.prevRune < 0
    THEN [r |-> r, err |-> "strings.Reader.UnreadRune: previous operation was not ReadRune"]
    ELSE [r |-> [r EXCEPT !.i = r.prevRune, !.prevRune = -1], err |-> Nil]

-----------------------------------------------------------------------------
(* The lexer: ChompCommand, ChompSign, ChompSeperator, ChompNumber. *)

SVGDInvalidCommand == "invalid"

SVGAllCommands == {"M", "m", "L", "l", "V", "v", "H", "h", "C", "c", "Z", "z"}

ChompCommand(r) ==
    LET rd == ReadRune(r) IN
    IF rd.err # Nil
    THEN [r |-> rd.r, val |-> SVGDInvalidCommand, err |-> rd.err]
    ELSE IF rd.ru \in SVGAllCommands
    THEN [r |-> rd.r, val |-> rd.ru, err |-> Nil]
    ELSE LET un == UnreadRune(rd.r) IN
         IF un.err # Nil
         THEN [r |-> un.r, val |-> SVGDInvalidCommand, err |-> "could not unread rune"]
         ELSE [r |-> un.r, val |-> SVGDInvalidCommand,
               err |-> "invalid reader state: no valid command found"]

\* The sign lexer of an earlier revision: '-' gives the multiplier 0.
ChompSignDefective(r) ==
    LET rd == ReadRune(r) IN
    IF rd.err # Nil THEN [r |-> rd.r, val |-> Rat(0), err |-> rd.err]
    ELSE IF rd.ru = "+" THEN [r |-> rd.r, val |-> Rat(1), err |-> Nil]
    ELSE IF rd.ru = "-" THEN [r |-> rd.r, val |-> Rat(0), err |-> Nil]
    ELSE IF rd.ru = "." \/ rd.ru \in Digits
    THEN LET un == UnreadRune(rd.r) IN
         IF un.err # Nil THEN [r |-> un.r, val |-> Rat(0), err |-> un.err]
         ELSE [r |-> un.r, val |-> Rat(1), err |-> Nil]
    ELSE [r |-> rd.r, val |-> Rat(0), err |-> "not a number"]

ChompSign(r) ==
    LET rd == ReadRune(r) IN
    IF rd.err # Nil THEN [r |-> rd.r, val |-> Rat(0), err |-> rd.err]
    ELSE IF rd.ru = "+" THEN [r |-> rd.r, val |-> Rat(1), err |-> Nil]
    ELSE IF rd.ru = "-" THEN [r |-> rd.r, val |-> Rat(-1), err |-> Nil]
    ELSE IF rd.ru = "." \/ rd.ru \in Digits
    THEN LET un == UnreadRune(rd.r) IN
         IF un.err # Nil THEN [r |-> un.r, val |-> Rat(0), err |-> un.err]
         ELSE [r |-> un.r, val |-> Rat(1), err |-> Nil]
    ELSE [r |-> rd.r, val |-> Rat(0), err |-> "not a number"]

RECURSIVE ChompSeperatorLoop(_, _)
ChompSeperatorLoop(r, str) ==
    LET rd == ReadRune(r) IN
    IF rd.err # Nil THEN [r |-> rd.r, val |-> str, err |-> rd.err]
    ELSE IF IsSpace(rd.ru) \/ rd.ru = ","
    THEN ChompSeperatorLoop(rd.r, Append(str, rd.ru))
    ELSE LET un == UnreadRune(rd.r) IN
         [r |-> un.r, val |-> str, err |-> un.err]

ChompSeperator(r) == ChompSeperatorLoop(r, <<>>)

\* strconv.ParseFloat on decimal numerals: an optional sign, then digits with at
\* most one '.', accumulated left to right; a string without a digit, or with any
\* other character, is a syntax error.  (Exponents, hexadecimal floats, infinities
\* and NaN, which it also reads, are not among the model's inputs.)
RECURSIVE ParseFloatLoop(_, _, _, _, _)
ParseFloatLoop(str, j, m, f, seen) ==
    IF j > Len(str) THEN [m |-> m, f |-> f]
    ELSE IF str[j] = "." THEN ParseFloatLoop(str, j + 1, m, f, TRUE)
    ELSE ParseFloatLoop(str, j + 1, 10 * m + DigitVal(str[j]),
                        IF seen THEN f + 1 ELSE f, seen)

ParseFloat(str) ==
    LET signed == Len(str) > 0 /\ str[1] \in {"+", "-"}
        body == IF signed THEN SubSeq(str, 2, Len(str)) ELSE str
    IN  IF \/ \A j \in 1..Len(body) : body[j] \notin Digits
           \/ \E j \in 1..Len(body) : body[j] \notin Digits \cup {"."}
           \/ \E j, n \in 1..Len(body) : j < n /\ body[j] = "." /\ body[n] = "."
        THEN [val |-> Rat(0), err |-> "strconv.ParseFloat: invalid syntax"]
        ELSE LET p == ParseFloatLoop(body, 1, 0, 0, FALSE)
             IN  [val |-> RatNorm(IF signed /\ str[1] = "-" THEN -p.m ELSE p.m, Pow10(p.f)),
                  err |-> Nil]

RECURSIVE ChompNumberLoop(_, _, _)
ChompNumberLoop(r, str, point) ==
    LET rd == ReadRune(r) IN
    IF rd.err # Nil THEN [r |-> rd.r, str |-> str, err |-> rd.err]
    ELSE IF rd.ru = "."
    THEN IF point
         THEN [r |-> rd.r, str |-> str, err |-> "double decimal point detected"]
         ELSE ChompNumberLoop(rd.r, Append(str, rd.ru), TRUE)
    ELSE IF rd.ru \in Digits
    THEN ChompNumberLoop(rd.r, Append(str, rd.ru), point)
    ELSE LET un == UnreadRune(rd.r) IN
         [r |-> un.r, str |-> str, err |-> un.err]

ChompNumber(r) ==
    LET sg == ChompSign(r) IN
    IF sg.err # Nil THEN [r |-> sg.r, val |-> Rat(0), err |-> sg.err]
    ELSE LET lp == ChompNumberLoop(sg.r, <<>>, FALSE) IN
         IF lp.err # Nil THEN [r |-> lp.r, val |-> Rat(0), err |-> lp.err]
         ELSE IF Len(lp.str) = 0
         THEN [r |-> lp.r, val |-> Rat(0), err |-> "no number found"]
         ELSE LET pf == ParseFloat(lp.str) IN
              IF pf.err # Nil THEN [r |-> lp.r, val |-> Rat(0), err |-> pf.err]
              ELSE [r |-> lp.r, val |-> RatMul(sg.val, pf.val), err |-> Nil]

-----------------------------------------------------------------------------
(* Points, rings and the cubic Bezier. *)

MakePoint(px, py) == [X |-> px, Y |-> py]

ZeroPoint == MakePoint(Rat(0), Rat(0))

PointAdd(p, q) == MakePoint(RatAdd(p.X, q.X), RatAdd(p.Y, q.Y))

PointEquals(p, q) == p.X = q.X /\ p.Y = q.Y

\* a*(1-t) + b*t
Lerp(a, b, t) == RatAdd(RatMul(a, RatSub(Rat(1), t)), RatMul(b, t))

LerpPoint(p, q, t) == MakePoint(Lerp(p.X, q.X, t), Lerp(p.Y, q.Y, t))

\* Bezier.at: a0, a1, a2 from p0, c0, c1, p1; b0, b1 from them; the point from b0
\* and b1.  Each row is the Lerp of the neighbours in the row before it.
RECURSIVE Casteljau(_, _)
Casteljau(row, t) ==
    IF Len(row) = 1 THEN row[1]
    ELSE Casteljau([n \in 1..(Len(row) - 1) |-> LerpPoint(row[n], row[n + 1], t)], t)

BezierAt(b, t) == Casteljau(<<b.p0, b.c0, b.c1, b.p1>>, t)

-----------------------------------------------------------------------------
(* The path command model: MakePart and each part's Linearize. *)

\* MakePart with the two coordinates of a Move or Line exchanged.
MakePartSwapped(cm, coords) ==
    IF cm \in {"M", "m", "L", "l"}
    THEN [part |-> [kind |-> CASE cm = "M" -> "SVGDAbsoluteMovePart"
                               [] cm = "m" -> "SVGDRelativeMovePart"
                               [] cm = "L" -> "SVGDAbsoluteLinePart"
                               [] cm = "l" -> "SVGDRelativeLinePart",
                    Point |-> [X |-> coords[2], Y |-> coords[1]]], err |-> Nil]
    ELSE IF cm \in {"H", "h", "V", "v"}
    THEN [part |-> [kind |-> CASE cm = "H" -> "SVGDAbsoluteHorizontalPart"
                               [] cm = "h" -> "SVGDRelativeHorizontalPart"
                               [] cm = "V" -> "SVGDAbsoluteVerticalPart"
                               [] cm = "v" -> "SVGDRelativeVerticalPart",
                    distance |-> coords[1]], err |-> Nil]
    ELSE IF cm \in {"C", "c"}
    THEN [part |-> [kind |-> IF cm = "C" THEN "SVGDAbsoluteCurvePart"
                             ELSE "SVGDRelativeCurvePart",
                    points |-> <<[X |-> coords[1], Y |-> coords[2]],
                                 [X |-> coords[3], Y |-> coords[4]],
                                 [X |-> coords[5], Y |-> coords[6]]>>], err |-> Nil]
    ELSE [part |-> [kind |-> "SVGDClosePart"], err |-> Nil]

MakePart(cm, coords) ==
    CASE cm = "M" -> [part |-> [kind |-> "SVGDAbsoluteMovePart",
                                Point |-> MakePoint(coords[1], coords[2])], err |-> Nil]
      [] cm = "m" -> [part |-> [kind |-> "SVGDRelativeMovePart",
                                Point |-> MakePoint(coords[1], coords[2])], err |-> Nil]
      [] cm = "L" -> [part |-> [kind |-> "SVGDAbsoluteLinePart",
                                Point |-> MakePoint(coords[1], coords[2])], err |-> Nil]
      [] cm = "l" -> [part |-> [kind |-> "SVGDRelativeLinePart",
                                Point |-> MakePoint(coords[1], coords[2])], err |-> Nil]
      [] cm = "H" -> [part |-> [kind |-> "SVGDAbsoluteHorizontalPart",
                                distance |-> coords[1]], err |-> Nil]
      [] cm = "h" -> [part |-> [kind |-> "SVGDRelativeHorizontalPart",
                                distance |-> coords[1]], err |-> Nil]
      [] cm = "V" -> [part |-> [kind |-> "SVGDAbsoluteVerticalPart",
                                distance |-> coords[1]], err |-> Nil]
      [] cm = "v" -> [part |-> [kind |-> "SVGDRelativeVerticalPart",
                                distance |-> coords[1]], err |-> Nil]
      [] cm = "C" -> [part |-> [kind |-> "SVGDAbsoluteCurvePart",
                                points |-> <<MakePoint(coords[1], coords[2]),
                                             MakePoint(coords[3], coords[4]),
                                             MakePoint(coords[5], coords[6])>>],
                      err |-> Nil]
      [] cm = "c" -> [part |-> [kind |-> "SVGDRelativeCurvePart",
                                points |-> <<MakePoint(coords[1], coords[2]),
                                             MakePoint(coords[3], coords[4]),
                                             MakePoint(coords[5], coords[6])>>],
                      err |-> Nil]
      [] cm \in {"Z", "z"} -> [part |-> [kind |-> "SVGDClosePart"], err |-> Nil]
      [] OTHER -> [part |-> [kind |-> "nil"], err |-> "invalid coordinates for part"]

\* The resolution ExtractPolygons passes: the float64 nearest 0.1 (f, bit-exact)
\* and the decimal it stands for (q).
CurveResolution == [f |-> [hi |-> 26843545, lo |-> 161061274], q |-> <<1, 10>>]

\* for e := 0.; e < 1.0; e += res { ret = append(ret, b.at(e)) }
\* The number of times the loop body runs from the float64 counter e, n runs done.
RECURSIVE CurveLoop(_, _, _)
CurveLoop(e, n, res) ==
    IF F64Less(e, F64One) THEN CurveLoop(F64Add(e, res.f), n + 1, res) ELSE n

\* The points of the loop, and ret = append(ret, b.at(1)).  Run j of the loop is
\* evaluated at the rational (j-1)*res, from which its counter e differs by the
\* accumulated rounding (under 2^-52).
CurveLinearize(b, res) ==
    Append([j \in 1..CurveLoop(F64Zero, 0, res) |-> BezierAt(b, RatMul(Rat(j - 1), res.q))],
           BezierAt(b, Rat(1)))

PartLinearize(p, start, res) ==
    CASE p.kind = "SVGDAbsoluteMovePart" -> <<p.Point>>
      [] p.kind = "SVGDRelativeMovePart" -> <<PointAdd(start, p.Point)>>
      [] p.kind = "SVGDAbsoluteLinePart" -> <<p.Point>>
      [] p.kind = "SVGDRelativeLinePart" -> <<PointAdd(start, p.Point)>>
      [] p.kind = "SVGDAbsoluteHorizontalPart" -> <<MakePoint(p.distance, start.Y)>>
      [] p.kind = "SVGDRelativeHorizontalPart" ->
            <<PointAdd(start, MakePoint(p.distance, Rat(0)))>>
      [] p.kind = "SVGDAbsoluteVerticalPart" -> <<MakePoint(start.X, p.distance)>>
      [] p.kind = "SVGDRelativeVerticalPart" ->
            <<PointAdd(start, MakePoint(Rat(0), p.distance))>>
      [] p.kind = "SVGDAbsoluteCurvePart" ->
            CurveLinearize([p0 |-> start, c0 |-> p.points[1], c1 |-> p.points[2],
                            p1 |-> p.points[3]], res)
      [] p.kind = "SVGDRelativeCurvePart" ->
            CurveLinearize([p0 |-> start, c0 |-> PointAdd(start, p.points[1]),
                            c1 |-> PointAdd(start, p.points[2]),
                            p1 |-> PointAdd(start, p.points[3])], res)
      [] p.kind = "SVGDClosePart" -> <<>>

-----------------------------------------------------------------------------
(* Ring geometry and the slice helpers. *)

\* Ring.At: cyclic, 0-based.
RingAt(r, n) == IF Len(r) = 0 THEN ZeroPoint ELSE r[(n % Len(r)) + 1]

\* The sum of a sequence of numbers, by halves: exact addition gives the one sum
\* in whatever order it is taken.
RECURSIVE RatSum(_)
RatSum(q) ==
    IF Len(q) = 0 THEN Rat(0)
    ELSE IF Len(q) = 1 THEN q[1]
    ELSE RatAdd(RatSum(SubSeq(q, 1, Len(q) \div 2)),
                RatSum(SubSeq(q, Len(q) \div 2 + 1, Len(q))))

\* Ring.Area: p0 := r.At(0); for i := 1; i <= len(r); i++ { p1 := r.At(i);
\* area += p0.X*p1.Y - p1.X*p0.Y; p0 = p1 }, p0 at step i being r.At(i-1).
AreaTerm(r, n) ==
    LET p0 == RingAt(r, n - 1)
        p1 == RingAt(r, n)
    IN  RatSub(RatMul(p0.X, p1.Y), RatMul(p1.X, p0.Y))

RingArea(r) ==
    IF Len(r) <= 2 THEN Rat(0) ELSE RatSum([n \in 1..Len(r) |-> AreaTerm(r, n)])

\* Ring.Area in float64 arithmetic, on points whose coordinates are signed float64
\* values, multiples of 2^-28: every product and every sum rounded as the
\* processor rounds it, the terms added in the order of the loop.  From the
\* index n of the loop, with the area so far.
RECURSIVE AreaLoop64Open(_, _, _)
AreaLoop64Open(r, n, area) ==
    IF n < Len(r)
    THEN LET p0 == RingAt(r, n - 1)
             p1 == RingAt(r, n)
         IN  AreaLoop64Open(r, n + 1,
                 FloatAdd(area, FloatSub(FloatMul(p0.X, p1.Y), FloatMul(p1.X, p0.Y))))
    ELSE area

\* Ring.Area with the loop stopping short of the pair of the last and the first
\* point (i < len(r)).
RingArea64Open(r) == IF Len(r) <= 2 THEN FloatZero ELSE AreaLoop64Open(r, 1, FloatZero)

RECURSIVE AreaLoop64(_, _, _)
AreaLoop64(r, n, area) ==
    IF n <= Len(r)
    THEN LET p0 == RingAt(r, n - 1)
             p1 == RingAt(r, n)
         IN  AreaLoop64(r, n + 1,
                 FloatAdd(area, FloatSub(FloatMul(p0.X, p1.Y), FloatMul(p1.X, p0.Y))))
    ELSE area

RingArea64(r) == IF Len(r) <= 2 THEN FloatZero ELSE AreaLoop64(r, 1, FloatZero)

Reverse(s) == [n \in 1..Len(s) |-> s[Len(s) - n + 1]]

\* RemoveDuplicates with pred = Point.Equals, its one use: for _, k := range s,
\* k is dropped when it equals ret[dex-1], the last element kept, which has the
\* value of the element before k (that one was kept, or was dropped for being equal
\* to it).  The elements lo..hi of s that the loop keeps, the range taken by halves.
RECURSIVE RemoveDuplicatesLoop(_, _, _)
RemoveDuplicatesLoop(s, lo, hi) ==
    IF lo > hi THEN <<>>
    ELSE IF lo = hi
    THEN (IF lo > 1 /\ PointEquals(s[lo], s[lo - 1]) THEN <<>> ELSE <<s[lo]>>)
    ELSE RemoveDuplicatesLoop(s, lo, (lo + hi) \div 2)
         \o RemoveDuplicatesLoop(s, (lo + hi) \div 2 + 1, hi)

RemoveDuplicates(s) == RemoveDuplicatesLoop(s, 1, Len(s))

\* coordsSplitter.Split(s, -1), for `[\s,]+`: the pieces of s between the maximal
\* runs of white space and commas; a run at the start or the end of s leaves an
\* empty piece there, and the empty string gives one empty piece.
IsSplitter(ch) == IsSpace(ch) \/ ch = ","

Split(s) ==
    LET after == {n \in 2..(Len(s) + 1) :
                    IsSplitter(s[n - 1]) /\ (n > Len(s) \/ ~IsSplitter(s[n]))}
        begin == [j \in 1..(Cardinality(after) + 1) |->
                    IF j = 1 THEN 1
                    ELSE CHOOSE n \in after : Cardinality({m \in after : m < n}) = j - 2]
        end(n) == LET stops == {m \in n..Len(s) : IsSplitter(s[m])}
                  IN  IF stops = {} THEN Len(s)
                      ELSE (CHOOSE m \in stops : \A o \in stops : m <= o) - 1
    IN  [j \in 1..Len(begin) |-> SubSeq(s, begin[j], end(begin[j]))]

-----------------------------------------------------------------------------
(* Colors: parseHashColor, ParseColor, MustParseColor. *)

HexDigits == Digits \cup {"A", "B", "C", "D", "E", "F", "a", "b", "c", "d", "e", "f"}

HexVal(ch) ==
    CASE ch \in Digits -> DigitVal(ch)
      [] ch \in {"A", "a"} -> 10 [] ch \in {"B", "b"} -> 11 [] ch \in {"C", "c"} -> 12
      [] ch \in {"D", "d"} -> 13 [] ch \in {"E", "e"} -> 14 [] ch \in {"F", "f"} -> 15

RECURSIVE ParseHex(_, _, _)
ParseHex(s, n, acc) == IF n > Len(s) THEN acc ELSE ParseHex(s, n + 1, 16 * acc + HexVal(s[n]))

RECURSIVE Pow16(_)
Pow16(n) == IF n = 0 THEN 1 ELSE 16 * Pow16(n - 1)

\* float64(mustParseHex(s)) / float64(1 << (4 * len(s)))
mustParseHexColor(s) == RatNorm(ParseHex(s, 1, 0), Pow16(Len(s)))

\* colorHashParser.FindStringSubmatch, for `^#([0-9A-Fa-f]{6})|([0-9A-Fa-f]{3})$`:
\* the alternation binds looser than the anchors, so the pattern is
\* (^#hex{6}) | (hex{3}$), and the leftmost match is the one found.  The result
\* is the match at 0 and the groups at 1 and 2 (one not taking part is empty),
\* or the nil slice, which has no index, for no match.
colorHashParser(col) ==
    IF Len(col) >= 7 /\ col[1] = "#" /\ \A n \in 2..7 : col[n] \in HexDigits
    THEN [n \in 0..2 |-> CASE n = 0 -> SubSeq(col, 1, 7)
                            [] n = 1 -> SubSeq(col, 2, 7)
                            [] n = 2 -> <<>>]
    ELSE IF Len(col) >= 3 /\ \A n \in (Len(col) - 2)..Len(col) : col[n] \in HexDigits
    THEN [n \in 0..2 |-> CASE n = 0 -> SubSeq(col, Len(col) - 2, Len(col))
                            [] n = 1 -> <<>>
                            [] n = 2 -> SubSeq(col, Len(col) - 2, Len(col))]
    ELSE <<>>

ZeroColor == [R |-> Rat(0), G |-> Rat(0), B |-> Rat(0), A |-> Rat(0)]

\* No call of ParseColor yet.
NoColor == [c |-> ZeroColor, err |-> Nil, panic |-> FALSE]

UnknownColorFormat == "uknown color format"

\* matches[0] on the nil slice of a failed match is an index-out-of-range panic.
parseHashColor(col) ==
    LET matches == colorHashParser(col) IN
    IF DOMAIN matches = {}
    THEN [c |-> ZeroColor, err |-> Nil, panic |-> TRUE]
    ELSE IF matches[0] = <<>>
    THEN [c |-> ZeroColor, err |-> UnknownColorFormat, panic |-> FALSE]
    ELSE IF Len(matches[2]) = 3
    THEN [c |-> [ZeroColor EXCEPT !.R = mustParseHexColor(SubSeq(matches[2], 1, 1)),
                                  !.G = mustParseHexColor(SubSeq(matches[2], 2, 2)),
                                  !.B = mustParseHexColor(SubSeq(matches[2], 3, 3))],
          err |-> Nil, panic |-> FALSE]
    ELSE IF Len(matches[1]) = 6
    THEN [c |-> [ZeroColor EXCEPT !.R = mustParseHexColor(SubSeq(matches[1], 1, 2)),
                                  !.G = mustParseHexColor(SubSeq(matches[1], 3, 4)),
                                  !.B = mustParseHexColor(SubSeq(matches[1], 5, 6))],
          err |-> Nil, panic |-> FALSE]
    ELSE [c |-> ZeroColor, err |-> Nil, panic |-> TRUE]

ParseColor(col) == parseHashColor(col)

MustParseColor(col) ==
    LET r == ParseColor(col) IN
    IF r.err # Nil THEN [r EXCEPT !.panic = TRUE] ELSE r

-----------------------------------------------------------------------------
(* The triangulator, triangolatte.Polygon: a library outside the           *)
(* repository.  It fails, or returns the triangles of a fan over the ring  *)
(* it was given, from its first or its second point, as triples of points; *)
(* or, nothing in the repository constraining the coordinates it returns,  *)
(* such a fan with one corner that is no point of the ring.                *)

Fan(ring, a) ==
    [j \in 1..(Len(ring) - 2) |->
        <<RingAt(ring, a), RingAt(ring, a + j), RingAt(ring, a + j + 1)>>]

\* A point that is no point of the ring.
Stray(ring) ==
    CHOOSE p \in {MakePoint(Rat(n), Rat(n)) : n \in 5..(5 + Len(ring))} :
        \A j \in 1..Len(ring) : ring[j] # p

StrayFan(ring) == [Fan(ring, 0) EXCEPT ![1] = <<@[1], @[2], Stray(ring)>>]

TriangulatorOutcomes(ring) ==
    {[tris |-> <<>>, err |-> "triangolatte: cannot triangulate"]}
    \cup (IF Len(ring) < 3 THEN {[tris |-> <<>>, err |-> Nil]}
          ELSE {[tris |-> Fan(ring, a), err |-> Nil] : a \in {0, 1}}
               \cup {[tris |-> StrayFan(ring), err |-> Nil]})

\* indices := make(map[Point]int); for i := 0; i < len(tp); i++ { indices[tp[i]] = i }
\* read at p: a later index overwrites an earlier one; a missing key reads as 0.
IndexOf(tp, p) ==
    LET at == {n \in 1..Len(tp) : tp[n] = p}
    IN  IF at = {} THEN 0 ELSE (CHOOSE n \in at : \A m \in at : m <= n) - 1

ResolveTriangles(tp, ts) ==
    [n \in 1..Len(ts) |-> <<IndexOf(tp, ts[n][1]), IndexOf(tp, ts[n][2]), IndexOf(tp, ts[n][3])>>]

-----------------------------------------------------------------------------
(* Inputs: path data and element trees. *)

Chars == {"M", "l", "H", "Z", " ", "-", ".", "1", "x"}

RECURSIVE Strings(_)
Strings(n) ==
    IF n = 0 THEN {<<>>}
    ELSE LET S == Strings(n - 1)
         IN  S \cup {Append(s, ch) : s \in {t \in S : Len(t) = n - 1}, ch \in Chars}

Segments ==
    { <<"M", " ", "1", " ", "2">>,
      <<"m", "3", " ", "2", "L", "2", ",", "0">>,
      <<"l", "-", "1", ".", "5", " ", ".", "5">>,
      <<"H", "3", "v", "-", "2">>,
      <<"h", "+", "1", "V", "2">>,
      <<"L", "1", ".", "2", ".", "3", " ", "4">>,
      <<"C", "0", ",", "1", " ", "1", ",", "1", " ", "1", ",", "0", " ">>,
      <<"c", "1", ",", "1", ",", "2", ",", "1", ",", "2", ",", "0">>,
      <<"Z">> }

RECURSIVE SegStrings(_)
SegStrings(n) ==
    IF n = 0 THEN {<<>>}
    ELSE {s \o g : s \in SegStrings(n - 1), g \in Segments \cup {<<>>}}

\* An svgparser.Element: its name, the attributes the builders read (one that
\* is not set reads as the empty string) and its children; addr is the address
\* a *svgparser.Element holds, the place of the element in its tree.
NoAttributes ==
    [d |-> <<>>, fill |-> <<>>, x |-> <<>>, y |-> <<>>, width |-> <<>>, height |-> <<>>,
     points |-> <<>>]

Element(name, d, fill, children) ==
    [Name |-> name, Attributes |-> [NoAttributes EXCEPT !.d = d, !.fill = fill],
     Children |-> children, addr |-> <<>>]

RectElement(ex, ey, width, height, fill) ==
    [Name |-> "rect",
     Attributes |-> [NoAttributes EXCEPT !.x = ex, !.y = ey, !.width = width,
                                         !.height = height, !.fill = fill],
     Children |-> <<>>, addr |-> <<>>]

PolygonElement(points, fill) ==
    [Name |-> "polygon",
     Attributes |-> [NoAttributes EXCEPT !.points = points, !.fill = fill],
     Children |-> <<>>, addr |-> <<>>]

\* The tree with every element at its own address: the root at a, child j of
\* the element at b at b followed by j.
RECURSIVE Addressed(_, _)
Addressed(t, a) ==
    [t EXCEPT !.addr = a,
              !.Children = [j \in 1..Len(t.Children) |->
                                Addressed(t.Children[j], Append(a, j))]]

\* The elements of the trees: a group, and paths with good and bad data and fills.
Labels ==
    { [Name |-> "g", d |-> <<>>, fill |-> <<>>],
      [Name |-> "path", d |-> <<"H", "2", "V", "2", "L", "0", ",", "0", "Z">>, fill |-> <<>>],
      [Name |-> "path", d |-> <<"H", "1", ".", "2", ".", "3", "Z">>, fill |-> <<>>],
      [Name |-> "path", d |-> <<"M", "0", ",", "0", "h", "2", "v", "2", "z">>,
       fill |-> <<"#", "F", "0", "0">>] }

RECURSIVE TreesOf(_), ForestsOf(_)
TreesOf(n) ==
    {Element(l.Name, l.d, l.fill, f) : l \in Labels, f \in ForestsOf(n - 1)}
ForestsOf(n) ==
    IF n = 0 THEN {<<>>}
    ELSE UNION {{<<t>> \o f : t \in TreesOf(m), f \in ForestsOf(n - m)} : m \in 1..n}

\* The attribute values of the rectangles; the empty one is an attribute not set.
RectNumbers == {<<"0">>, <<"1">>, <<"2">>, <<"-", "1", ".", "5">>, <<>>}

Rects ==
    {RectElement(ex, ey, w, h, <<>>) : ex, ey, w, h \in RectNumbers}
    \cup {RectElement(<<"0">>, <<"0">>, <<"2">>, <<"1">>, f) :
            f \in {<<"#", "F", "0", "0">>, <<"r", "e", "d">>}}

\* The point lists of the polygons: up to MaxPoints points of a square, each
\* after the first behind a space; and some with white space at the ends, an odd
\* number of coordinates, and a coordinate that is no number.
PointTexts == {<<"0", ",", "0">>, <<"2", ",", "0">>, <<"2", ",", "2">>, <<"0", ",", "2">>}

RECURSIVE PointLists(_)
PointLists(n) ==
    IF n = 0 THEN {<<>>}
    ELSE LET S == PointLists(n - 1)
         IN  S \cup {(IF s = <<>> THEN s ELSE s \o <<" ">>) \o t :
                        s \in {u \in S : Len(u) = 4 * (n - 1) - 1 \/ (n = 1 /\ u = <<>>)},
                        t \in PointTexts}

TriangleText == <<"0", ",", "0", " ", "2", ",", "0", " ", "2", ",", "2">>

Polygons ==
    {PolygonElement(s, <<>>) : s \in PointLists(MaxPoints)}
    \cup {PolygonElement(s, <<>>) :
            s \in {<<" ">> \o TriangleText, TriangleText \o <<" ">>, TriangleText \o <<" ", "5">>,
                   <<"0", ",", "x", " ">> \o TriangleText}}
    \cup {PolygonElement(TriangleText, f) : f \in {<<"#", "F", "0", "0">>, <<"r", "e", "d">>}}

Roots ==
    {Element("path", d, <<>>, <<>>) : d \in Strings(MaxLen) \cup SegStrings(MaxSeg)}
    \cup {Addressed(t, <<>>) : t \in UNION {TreesOf(n) : n \in 1..MaxNodes}}
    \cup Rects
    \cup Polygons

-----------------------------------------------------------------------------
(* The program: main's call ExtractPolygons(elements).                     *)

NoChomp ==
    [op |-> "none", before |-> NewReader(<<>>), after |-> NewReader(<<>>),
     val |-> <<>>, err |-> Nil]

ZeroC == [n \in 1..6 |-> Rat(0)]

\* ExtractPolygons(root) for a root of roots, after stack = append(stack, el).
Entry(roots) ==
    /\ \E root \in roots : stack = <<root>>
    /\ ret = <<>>
    /\ xerr = Nil
    /\ el = Element("", <<>>, <<>>, <<>>)
    /\ pc = "loop"
    /\ reader = NewReader(<<>>)
    /\ cmd = SVGDInvalidCommand
    /\ x = Rat(0)
    /\ y = Rat(0)
    /\ c = ZeroC
    /\ i = 0
    /\ parts = <<>>
    /\ err = Nil
    /\ chomp = NoChomp
    /\ exterior = <<>>
    /\ k = 0
    /\ starts = <<>>
    /\ tris = <<>>
    /\ visited = <<>>
    /\ fring = <<>>
    /\ applied = <<>>
    /\ colText = <<>>
    /\ color = NoColor

Init == Entry(Roots)

extractVars == <<stack, ret, xerr, el>>
parseVars == <<reader, cmd, x, y, c, i, parts, err, chomp>>
buildVars == <<exterior, k, starts, tris>>
pureVars == <<fring, applied, colText, color>>
otherVars == <<visited, fring, applied, colText, color>>

\* The record of a lexer call on the reader.
Call(op, r) == [op |-> op, before |-> reader, after |-> r.r, val |-> r.val, err |-> r.err]

\* for len(stack) > 0 { el, stack = stack[len(stack)-1], stack[:len(stack)-1]; switch el.Name
\* A path starts PolygonFromPathElement(el, 0.1): the reader over el.Attributes["d"]
\* and the locals of Parse.
ExtractPop ==
    /\ pc = "loop"
    /\ Len(stack) > 0
    /\ el' = stack[Len(stack)]
    /\ stack' = SubSeq(stack, 1, Len(stack) - 1)
    /\ visited' = Append(visited, el')
    /\ IF el'.Name = "path"
       THEN /\ pc' = "parse_sep"
            /\ reader' = NewReader(el'.Attributes.d)
            /\ cmd' = SVGDInvalidCommand
            /\ x' = Rat(0)
            /\ y' = Rat(0)
            /\ c' = ZeroC
            /\ i' = 0
            /\ parts' = <<>>
            /\ err' = Nil
            /\ chomp' = NoChomp
       ELSE /\ pc' = CASE el'.Name = "polygon" -> "polygon"
                        [] el'.Name = "rect" -> "rect"
                        [] OTHER -> "push"
            /\ UNCHANGED parseVars
    /\ UNCHANGED <<ret, xerr, buildVars, pureVars>>

\* The children appended last child first.
ExtractPushReversed ==
    /\ pc = "push"
    /\ stack' = stack \o Reverse(el.Children)
    /\ pc' = "loop"
    /\ UNCHANGED <<ret, xerr, el, parseVars, buildVars, otherVars>>

\* stack = append(stack, el.Children...)
ExtractPush ==
    /\ pc = "push"
    /\ stack' = stack \o el.Children
    /\ pc' = "loop"
    /\ UNCHANGED <<ret, xerr, el, parseVars, buildVars, otherVars>>

\* The loop ends with the stack empty: return ret, nil.
ExtractReturn ==
    /\ pc = "loop"
    /\ Len(stack) = 0
    /\ pc' = "returned"
    /\ UNCHANGED <<extractVars, parseVars, buildVars, otherVars>>

\* Parse, top of the loop: if _, err = r.ChompSeperator(); err != nil { return }
ParseSeperator ==
    /\ pc = "parse_sep"
    /\ LET r == ChompSeperator(reader) IN
        /\ reader' = r.r
        /\ chomp' = Call("ChompSeperator", r)
        /\ err' = r.err
        /\ pc' = IF r.err # Nil THEN "parsed" ELSE "parse_cmd"
    /\ UNCHANGED <<extractVars, cmd, x, y, c, i, parts, buildVars, otherVars>>

\* else if cmd, err = r.ChompCommand(); err != nil { return }; switch cmd
ParseCommand ==
    /\ pc = "parse_cmd"
    /\ LET r == ChompCommand(reader) IN
        /\ reader' = r.r
        /\ chomp' = Call("ChompCommand", r)
        /\ cmd' = r.val
        /\ err' = r.err
        /\ pc' = IF r.err # Nil THEN "parsed"
                 ELSE IF r.val \in {"L", "l", "M", "m"} THEN "ml_x"
                 ELSE IF r.val \in {"H", "h", "V", "v"} THEN "hv_x"
                 ELSE IF r.val \in {"C", "c"} THEN "c_num"
                 ELSE "close"
    /\ i' = 0
    /\ UNCHANGED <<extractVars, x, y, c, parts, buildVars, otherVars>>

\* Move and Line: if x, err = r.ChompNumber(); err != nil { return }
ParseMoveLineX ==
    /\ pc = "ml_x"
    /\ LET r == ChompNumber(reader) IN
        /\ reader' = r.r
        /\ chomp' = Call("ChompNumber", r)
        /\ x' = r.val
        /\ err' = r.err
        /\ pc' = IF r.err # Nil THEN "parsed" ELSE "ml_sep"
    /\ UNCHANGED <<extractVars, cmd, y, c, i, parts, buildVars, otherVars>>

\* else if _, err = r.ChompSeperator(); err != nil { return }
ParseMoveLineSeperator ==
    /\ pc = "ml_sep"
    /\ LET r == ChompSeperator(reader) IN
        /\ reader' = r.r
        /\ chomp' = Call("ChompSeperator", r)
        /\ err' = r.err
        /\ pc' = IF r.err # Nil THEN "parsed" ELSE "ml_y"
    /\ UNCHANGED <<extractVars, cmd, x, y, c, i, parts, buildVars, otherVars>>

\* else if y, err = r.ChompNumber(); err != nil { return }
\* else if part, err = MakePart(cmd, x, y); err != nil { return }
\* parts = append(parts, part)
ParseMoveLineY ==
    /\ pc = "ml_y"
    /\ LET r == ChompNumber(reader)
           mk == MakePart(cmd, <<x, r.val>>)
       IN
        /\ reader' = r.r
        /\ chomp' = Call("ChompNumber", r)
        /\ y' = r.val
        /\ IF r.err # Nil
           THEN err' = r.err /\ pc' = "parsed" /\ parts' = parts
           ELSE IF mk.err # Nil
           THEN err' = mk.err /\ pc' = "parsed" /\ parts' = parts
           ELSE err' = Nil /\ pc' = "parse_sep" /\ parts' = Append(parts, mk.part)
    /\ UNCHANGED <<extractVars, cmd, x, c, i, buildVars, otherVars>>

\* Horizontal and Vertical: if x, err = r.ChompNumber(); err != nil { return }
\* else if part, err = MakePart(cmd, x); err != nil { return }
\* parts = append(parts, part)
ParseHorizontalVertical ==
    /\ pc = "hv_x"
    /\ LET r == ChompNumber(reader)
           mk == MakePart(cmd, <<r.val>>)
       IN
        /\ reader' = r.r
        /\ chomp' = Call("ChompNumber", r)
        /\ x' = r.val
        /\ IF r.err # Nil
           THEN err' = r.err /\ pc' = "parsed" /\ parts' = parts
           ELSE IF mk.err # Nil
           THEN err' = mk.err /\ pc' = "parsed" /\ parts' = parts
           ELSE err' = Nil /\ pc' = "parse_sep" /\ parts' = Append(parts, mk.part)
    /\ UNCHANGED <<extractVars, cmd, y, c, i, buildVars, otherVars>>

\* Curve: for i := range c { if c[i], err = r.ChompNumber(); err != nil { return }
ParseCurveNumber ==
    /\ pc = "c_num"
    /\ LET r == ChompNumber(reader) IN
        /\ reader' = r.r
        /\ chomp' = Call("ChompNumber", r)
        /\ c' = [c EXCEPT ![i + 1] = r.val]
        /\ err' = r.err
        /\ pc' = IF r.err # Nil THEN "parsed" ELSE "c_sep"
    /\ UNCHANGED <<extractVars, cmd, x, y, i, parts, buildVars, otherVars>>

\* else if _, err = r.ChompSeperator(); err != nil { return } }
\* and, after the sixth: if part, err = MakePart(cmd, c...); err != nil { return }
\* parts = append(parts, part)
ParseCurveSeperator ==
    /\ pc = "c_sep"
    /\ LET r == ChompSeperator(reader)
           mk == MakePart(cmd, c)
       IN
        /\ reader' = r.r
        /\ chomp' = Call("ChompSeperator", r)
        /\ IF r.err # Nil
           THEN err' = r.err /\ pc' = "parsed" /\ parts' = parts /\ i' = i
           ELSE IF i + 1 < 6
           THEN err' = Nil /\ pc' = "c_num" /\ parts' = parts /\ i' = i + 1
           ELSE IF mk.err # Nil
           THEN err' = mk.err /\ pc' = "parsed" /\ parts' = parts /\ i' = i + 1
           ELSE err' = Nil /\ pc' = "parse_sep" /\ parts' = Append(parts, mk.part)
                /\ i' = i + 1
    /\ UNCHANGED <<extractVars, cmd, x, y, c, buildVars, otherVars>>

\* Close that returns without appending the Close part.
ParseCloseNoAppend ==
    /\ pc = "close"
    /\ err' = MakePart(cmd, <<>>).err
    /\ pc' = "parsed"
    /\ UNCHANGED <<extractVars, reader, cmd, x, y, c, i, parts, chomp, buildVars, otherVars>>

\* Close: if part, err = MakePart(cmd); err != nil { return }
\* parts = append(parts, part); return
ParseClose ==
    /\ pc = "close"
    /\ LET mk == MakePart(cmd, <<>>) IN
        /\ err' = mk.err
        /\ parts' = IF mk.err # Nil THEN parts ELSE Append(parts, mk.part)
    /\ pc' = "parsed"
    /\ UNCHANGED <<extractVars, reader, cmd, x, y, c, i, chomp, buildVars, otherVars>>

\* The builder going on to linearize whatever Parse returned, its err unread.
PathParsedIgnoreErr ==
    /\ pc = "parsed"
    /\ pc' = "linearize"
    /\ exterior' = <<>>
    /\ k' = 0
    /\ starts' = <<>>
    /\ tris' = <<>>
    /\ UNCHANGED <<extractVars, parseVars, otherVars>>

\* parts, err := dreader.Parse(); if err != nil { return nil, err }, on which
\* ExtractPolygons does return ret, err.
PathParsed ==
    /\ pc = "parsed"
    /\ IF err # Nil
       THEN /\ pc' = "returned"
            /\ xerr' = err
            /\ UNCHANGED buildVars
       ELSE /\ pc' = "linearize"
            /\ xerr' = xerr
            /\ exterior' = <<>>
            /\ k' = 0
            /\ starts' = <<>>
            /\ tris' = <<>>
    /\ UNCHANGED <<stack, ret, el, parseVars, otherVars>>

\* Linearize that hands every part the zero point as its start.
PathLinearizeFromZero ==
    /\ pc = "linearize"
    /\ IF k < Len(parts)
       THEN /\ exterior' = exterior \o PartLinearize(parts[k + 1], ZeroPoint, CurveResolution)
            /\ starts' = Append(starts, ZeroPoint)
            /\ k' = k + 1
            /\ pc' = pc
       ELSE /\ pc' = "normalize"
            /\ UNCHANGED <<exterior, starts, k>>
    /\ UNCHANGED <<extractVars, parseVars, tris, otherVars>>

\* poly.Exterior = parts.Linearize(res), one part of the range loop a step:
\* last := Point{}; if e := len(ret) - 1; e >= 0 { last = ret[e] }
\* ret = append(ret, p.Linearize(last, res)...)
PathLinearize ==
    /\ pc = "linearize"
    /\ IF k < Len(parts)
       THEN LET last == IF Len(exterior) - 1 >= 0 THEN exterior[Len(exterior)]
                        ELSE ZeroPoint
            IN  /\ exterior' = exterior \o PartLinearize(parts[k + 1], last, CurveResolution)
                /\ starts' = Append(starts, last)
                /\ k' = k + 1
                /\ pc' = pc
       ELSE /\ pc' = "normalize"
            /\ UNCHANGED <<exterior, starts, k>>
    /\ UNCHANGED <<extractVars, parseVars, tris, otherVars>>

\* poly.Exterior = RemoveDuplicates(poly.Exterior, Equals)
\* if area := Ring(poly.Exterior).Area(); area < 0 { Reverse(poly.Exterior) }
PathNormalize ==
    /\ pc = "normalize"
    /\ LET dd == RemoveDuplicates(exterior) IN
        exterior' = IF RatLess(RingArea(dd), Rat(0)) THEN Reverse(dd) ELSE dd
    /\ pc' = "triangulate"
    /\ UNCHANGED <<extractVars, parseVars, k, starts, tris, otherVars>>

\* tris, err := triangolatte.Polygon(tp); if err != nil { return nil, err }
PathTriangulate ==
    /\ pc = "triangulate"
    /\ \E out \in TriangulatorOutcomes(exterior) :
        IF out.err # Nil
        THEN /\ pc' = "returned"
             /\ xerr' = out.err
             /\ tris' = tris
        ELSE /\ pc' = "resolve"
             /\ xerr' = xerr
             /\ tris' = out.tris
    /\ UNCHANGED <<stack, ret, el, parseVars, exterior, k, starts, otherVars>>

\* if el.Attributes["fill"] != "" { poly.Fill = MustParseColor(...) }
\* the loop that resolves the triangles' corners to indices; return &poly, nil,
\* on which ExtractPolygons does ret = append(ret, *poly).
PathResolve ==
    /\ pc = "resolve"
    /\ LET fill == IF el.Attributes.fill # <<>> THEN MustParseColor(el.Attributes.fill)
                   ELSE [c |-> ZeroColor, err |-> Nil, panic |-> FALSE]
       IN  IF fill.panic
           THEN /\ pc' = "panic"
                /\ ret' = ret
           ELSE /\ pc' = "push"
                /\ ret' = Append(ret, [Fill |-> fill.c, Exterior |-> exterior,
                                       Triangles |-> ResolveTriangles(exterior, tris)])
    /\ UNCHANGED <<stack, xerr, el, parseVars, buildVars, otherVars>>

\* PolygonFromRectElement: x, y, width and height through strconv.ParseFloat, the
\* first error returned (ExtractPolygons returns it); x1 and y1 are the far
\* corner; the four corners, the two fixed triangles, the fill.
PolygonFromRectElement ==
    /\ pc = "rect"
    /\ LET x0 == ParseFloat(el.Attributes.x)
           y0 == ParseFloat(el.Attributes.y)
           w == ParseFloat(el.Attributes.width)
           h == ParseFloat(el.Attributes.height)
           x1 == RatAdd(w.val, x0.val)
           y1 == RatAdd(h.val, y0.val)
           fill == IF el.Attributes.fill # <<>> THEN MustParseColor(el.Attributes.fill)
                   ELSE [c |-> ZeroColor, err |-> Nil, panic |-> FALSE]
           failed == IF x0.err # Nil THEN x0.err
                     ELSE IF y0.err # Nil THEN y0.err
                     ELSE IF w.err # Nil THEN w.err
                     ELSE h.err
       IN  IF failed # Nil
           THEN pc' = "returned" /\ xerr' = failed /\ ret' = ret
           ELSE IF fill.panic
           THEN pc' = "panic" /\ xerr' = xerr /\ ret' = ret
           ELSE /\ pc' = "push"
                /\ xerr' = xerr
                /\ ret' = Append(ret,
                        [Fill |-> fill.c,
                         Exterior |-> <<MakePoint(x0.val, y0.val), MakePoint(x0.val, y1),
                                        MakePoint(x1, y1), MakePoint(x1, y0.val)>>,
                         Triangles |-> <<(<<0, 1, 2>>), (<<2, 3, 0>>)>>])
    /\ UNCHANGED <<stack, el, parseVars, buildVars, otherVars>>

\* for i := 0; i+1 < len(coords); i += 2: x and y through strconv.ParseFloat, the
\* first error returned; ret.Exterior = append(ret.Exterior, Point{X: x, Y: y}).
\* The loop from the 0-based index n with the ring acc so far.
RECURSIVE PolygonPoints(_, _, _)
PolygonPoints(coords, n, acc) ==
    IF n + 1 < Len(coords)
    THEN LET px == ParseFloat(coords[n + 1])
             py == ParseFloat(coords[n + 2])
         IN  IF px.err # Nil THEN [ring |-> acc, err |-> px.err]
             ELSE IF py.err # Nil THEN [ring |-> acc, err |-> py.err]
             ELSE PolygonPoints(coords, n + 2, Append(acc, MakePoint(px.val, py.val)))
    ELSE [ring |-> acc, err |-> Nil]

\* PolygonFromPolygonElement: the points split and parsed; the ring reversed if
\* its area is negative; the triangulator, its error returned; the fill; the
\* triangles' corners resolved to indices.
PolygonFromPolygonElement ==
    /\ pc = "polygon"
    /\ LET pts == PolygonPoints(Split(el.Attributes.points), 0, <<>>)
           wound == IF RatLess(RingArea(pts.ring), Rat(0)) THEN Reverse(pts.ring)
                    ELSE pts.ring
           fill == IF el.Attributes.fill # <<>> THEN MustParseColor(el.Attributes.fill)
                   ELSE [c |-> ZeroColor, err |-> Nil, panic |-> FALSE]
       IN  IF pts.err # Nil
           THEN /\ pc' = "returned"
                /\ xerr' = pts.err
                /\ UNCHANGED <<ret, exterior, tris>>
           ELSE \E out \in TriangulatorOutcomes(wound) :
                /\ exterior' = wound
                /\ IF out.err # Nil
                   THEN pc' = "returned" /\ xerr' = out.err /\ ret' = ret /\ tris' = tris
                   ELSE IF fill.panic
                   THEN pc' = "panic" /\ xerr' = xerr /\ ret' = ret /\ tris' = out.tris
                   ELSE /\ pc' = "push"
                        /\ xerr' = xerr
                        /\ tris' = out.tris
                        /\ ret' = Append(ret, [Fill |-> fill.c, Exterior |-> wound,
                                               Triangles |-> ResolveTriangles(wound, out.tris)])
    /\ UNCHANGED <<stack, el, parseVars, k, starts, otherVars>>

Next ==
    \/ ExtractPop
    \/ ExtractPush
    \/ ExtractReturn
    \/ ParseSeperator
    \/ ParseCommand
    \/ ParseMoveLineX
    \/ ParseMoveLineSeperator
    \/ ParseMoveLineY
    \/ ParseHorizontalVertical
    \/ ParseCurveNumber
    \/ ParseCurveSeperator
    \/ ParseClose
    \/ PathParsed
    \/ PathLinearize
    \/ PathNormalize
    \/ PathTriangulate
    \/ PathResolve
    \/ PolygonFromRectElement
    \/ PolygonFromPolygonElement

Spec == Init /\ [][Next]_vars

-----------------------------------------------------------------------------
(* Ring.Area and the winding correction of the builders, on rings of       *)
(* float64 points.                                                         *)

\* The program's variables while a function is run by itself.
NoProgram ==
    /\ stack = <<>>
    /\ ret = <<>>
    /\ xerr = Nil
    /\ el = Element("", <<>>, <<>>, <<>>)
    /\ reader = NewReader(<<>>)
    /\ cmd = SVGDInvalidCommand
    /\ x = Rat(0)
    /\ y = Rat(0)
    /\ c = ZeroC
    /\ i = 0
    /\ parts = <<>>
    /\ err = Nil
    /\ chomp = NoChomp
    /\ exterior = <<>>
    /\ k = 0
    /\ starts = <<>>
    /\ tris = <<>>
    /\ visited = <<>>

programVars ==
    <<stack, ret, xerr, el, pc, reader, cmd, x, y, c, i, parts, err, chomp,
      exterior, k, starts, tris, visited>>

\* The float64 coordinate n * 2^-28, and the point of two of them.
Coord64(n) == Float(1, [hi |-> n, lo |-> 0])

Point64(a, b) == MakePoint(Coord64(a), Coord64(b))

\* Points of small coordinates, whose products and sums float64 holds exactly,
\* and points with the coordinate 1 - 2^-28, whose products it has to round.
SmallPoints64 == {Point64(0, 0), Point64(2, 0), Point64(2, 1), Point64(0, 1)}

BigPoints64 ==
    {Point64(1, 1), Point64(Limb - 1, 1), Point64(0, Limb - 1), Point64(Limb - 1, 0),
     Point64(1, Limb - 1)}

RECURSIVE RingsOver(_, _)
RingsOver(P, n) ==
    IF n = 0 THEN {<<>>}
    ELSE LET S == RingsOver(P, n - 1)
         IN  S \cup {Append(r, p) : r \in {q \in S : Len(q) = n - 1}, p \in P}

Rings64 == RingsOver(SmallPoints64, MaxRing) \cup RingsOver(BigPoints64, MaxRing)

AreaInit ==
    /\ NoProgram
    /\ pc = "winding"
    /\ fring \in Rings64
    /\ applied = <<>>
    /\ colText = <<>>
    /\ color = NoColor

\* if area := Ring(poly.Exterior).Area(); area < 0 { Reverse(poly.Exterior) }
\* applied records the area found and whether the ring was reversed.
WindingCorrection ==
    /\ pc = "winding"
    /\ Len(applied) < MaxApply
    /\ LET area == RingArea64(fring) IN
        /\ fring' = IF FloatLess(area, FloatZero) THEN Reverse(fring) ELSE fring
        /\ applied' = Append(applied, [area |-> area,
                                       reversed |-> FloatLess(area, FloatZero)])
    /\ UNCHANGED <<programVars, colText, color>>

AreaNext == WindingCorrection

AreaSpec == AreaInit /\ [][AreaNext]_vars

-----------------------------------------------------------------------------
(* ParseColor, on the texts of fill attributes.                            *)

ColorChars == {"#", "F", "0", "a", "Z"}

RECURSIVE ColorStrings(_)
ColorStrings(n) ==
    IF n = 0 THEN {<<>>}
    ELSE LET S == ColorStrings(n - 1)
         IN  S \cup {Append(t, ch) : t \in {u \in S : Len(u) = n - 1}, ch \in ColorChars}

LongColorTexts ==
    { <<"#", "F", "F", "0", "0", "0", "0">>,
      <<"#", "f", "f", "0", "0", "0", "0">>,
      <<"#", "8", "0", "c", "0", "1", "0">>,
      <<"#", "a", "a", "0", "0", "F", "F">>,
      <<"#", "Z", "Z", "Z", "Z", "Z", "Z">>,
      <<"#", "1", "2", "3", "4", "5">>,
      <<"#", "F", "F", "0", "0", "0", "0", "F", "F">>,
      <<"#", "F", "F", "0", "0", "0", "0", " ">>,
      <<"F", "F", "0", "0", "0", "0">>,
      <<"r", "e", "d">> }

ColorTexts == ColorStrings(MaxColorLen) \cup LongColorTexts

ColorInit ==
    /\ NoProgram
    /\ pc = "color"
    /\ colText \in ColorTexts
    /\ color = NoColor
    /\ fring = <<>>
    /\ applied = <<>>

\* c, err := ParseColor(col)
ParseColorCall ==
    /\ pc = "color"
    /\ color' = ParseColor(colText)
    /\ pc' = "color_done"
    /\ UNCHANGED <<stack, ret, xerr, el, parseVars, buildVars, visited, fring, applied,
                   colText>>

ColorNext == ParseColorCall

ColorSpec == ColorInit /\ [][ColorNext]_vars

-----------------------------------------------------------------------------
(* The tree walk of ExtractPolygons run to its end: trees of groups and    *)
(* shapes whose fills tell the polygons apart, and trees with paths.  The  *)
(* program is one thread that takes its next step whenever it has one:     *)
(* weak fairness of Next.                                                  *)

Red == <<"#", "F", "0", "0">>
Green == <<"#", "0", "F", "0">>
Blue == <<"#", "0", "0", "F">>

WalkShapes ==
    { Element("g", <<>>, <<>>, <<>>),
      RectElement(<<"0">>, <<"0">>, <<"2">>, <<"1">>, Red),
      PolygonElement(TriangleText, Green) }

RECURSIVE WalkTreesOf(_), WalkForestsOf(_)
WalkTreesOf(n) ==
    {[e EXCEPT !.Children = f] : e \in WalkShapes, f \in WalkForestsOf(n - 1)}
WalkForestsOf(n) ==
    IF n = 0 THEN {<<>>}
    ELSE UNION {{<<t>> \o f : t \in WalkTreesOf(m), f \in WalkForestsOf(n - m)} : m \in 1..n}

\* A path with a curve, one whose data does not parse, and one with a fill that
\* is no color.
WalkPaths ==
    { Element("path", <<"M", "0", ",", "0", "h", "2", "c", "0", ",", "1", " ", "1", ",", "1",
                        " ", "1", ",", "0", "V", "2", "L", "0", " ", "2", "z">>, Blue, <<>>),
      Element("path", <<"H", "1", ".", "2", ".", "3", "Z">>, <<>>, <<>>),
      Element("path", <<"M", "0", ",", "0", "h", "2", "v", "2", "z">>, <<"r", "e", "d">>, <<>>) }

WalkPathTrees ==
    {Element("g", <<>>, <<>>, <<p, q>>) : p \in WalkPaths, q \in WalkPaths \cup WalkShapes}
    \cup {[p EXCEPT !.Children = <<q>>] : p \in WalkPaths, q \in WalkShapes}

\* Trees of five elements, two levels deep, with shapes at the leaves.
WalkLeaves == {e \in WalkShapes : e.Name # "g"}

WalkDeepTrees ==
    {Element("g", <<>>, <<>>, <<a, Element("g", <<>>, <<>>, <<b, d>>)>>) :
        a, b, d \in WalkLeaves}
    \cup {Element("g", <<>>, <<>>, <<Element("g", <<>>, <<>>, <<a, b>>), d>>) :
        a, b, d \in WalkLeaves}

WalkRoots ==
    {Addressed(t, <<>>) :
        t \in WalkPathTrees \cup WalkDeepTrees \cup UNION {WalkTreesOf(n) : n \in 1..MaxWalk}}

WalkInit == Entry(WalkRoots)

\* ExtractPolygons is over: it returned, or a panic unwound it.
Terminated == pc \in {"returned", "panic"}

\* WF_vars(Next) with its ENABLED <<Next>>_vars written out: at every position
\* but the two it ends in the program has a step, and the step changes pc or k.
Fairness == []<>Terminated \/ []<><<Next>>_vars

WalkSpec == WalkInit /\ [][Next]_vars /\ Fairness

-----------------------------------------------------------------------------
(* The path-data grammar as the specification words it, read off the text  *)
(* alone: command letters, each followed by its numerals, which white      *)
(* space, commas and signs delimit.                                        *)

IsSeparator(ch) == ch \in {" ", "\t", "\n", "\r", ","}

\* The text of the input the reader has consumed, and the text still ahead.
Consumed == SubSeq(reader.s, 1, reader.i)
Ahead(r) == SubSeq(r.s, r.i + 1, Len(r.s))

\* The members of a set of positions, in increasing order.
InOrder(S) ==
    [j \in 1..Cardinality(S) |-> CHOOSE n \in S : Cardinality({m \in S : m < n}) = j - 1]

\* The positions of the command letters of a text, in order.
LetterPositions(t) == InOrder({n \in 1..Len(t) : t[n] \in SVGAllCommands})

\* The numerals of an argument text: a numeral starts at a sign, or at a character
\* that follows a separator or starts the text, and runs up to the next separator
\* or sign.
NumeralStarts(t) ==
    {n \in 1..Len(t) :
        /\ ~IsSeparator(t[n])
        /\ (n = 1 \/ t[n] \in {"+", "-"} \/ IsSeparator(t[n - 1]))}

NumeralEnd(t, n) ==
    LET stops == {m \in (n + 1)..Len(t) : IsSeparator(t[m]) \/ t[m] \in {"+", "-"}}
    IN  IF stops = {} THEN Len(t) ELSE (CHOOSE m \in stops : \A o \in stops : m <= o) - 1

Tokenize(t) ==
    LET at == InOrder(NumeralStarts(t))
    IN  [j \in 1..Len(at) |-> SubSeq(t, at[j], NumeralEnd(t, at[j]))]

Unsigned(tok) ==
    IF Len(tok) > 0 /\ tok[1] \in {"+", "-"} THEN SubSeq(tok, 2, Len(tok)) ELSE tok

DotsOf(body) == {n \in 1..Len(body) : body[n] = "."}

\* A numeral: an optional sign, then digits with at most one '.', a digit among them.
IsNumeral(tok) ==
    LET body == Unsigned(tok) IN
    /\ \A n \in 1..Len(body) : body[n] \in Digits \cup {"."}
    /\ Cardinality(DotsOf(body)) <= 1
    /\ \E n \in 1..Len(body) : body[n] \in Digits

\* The number a run of digits writes: the sum of digit * 10^place.
RECURSIVE DigitsValue(_)
DigitsValue(ds) ==
    IF Len(ds) = 0 THEN 0
    ELSE DigitVal(ds[1]) * Pow10(Len(ds) - 1) + DigitsValue(SubSeq(ds, 2, Len(ds)))

\* The value of a numeral: sign * (integer part + fraction part).
NumeralValue(tok) ==
    LET body == Unsigned(tok)
        dot == IF DotsOf(body) = {} THEN Len(body) + 1 ELSE CHOOSE n \in DotsOf(body) : TRUE
        whole == SubSeq(body, 1, dot - 1)
        frac == SubSeq(body, dot + 1, Len(body))
        mag == RatAdd(Rat(DigitsValue(whole)), RatNorm(DigitsValue(frac), Pow10(Len(frac))))
    IN  IF Len(tok) > 0 /\ tok[1] = "-" THEN RatNeg(mag) ELSE mag

Arity(letter) ==
    CASE letter \in {"M", "m", "L", "l"} -> 2
      [] letter \in {"H", "h", "V", "v"} -> 1
      [] letter \in {"C", "c"} -> 6
      [] letter \in {"Z", "z"} -> 0

\* The commands of a text: each command letter with the numerals of the text
\* between it and the next letter.
CommandsOf(t) ==
    LET ps == LetterPositions(t) IN
    [n \in 1..Len(ps) |->
        [letter |-> t[ps[n]],
         args |-> Tokenize(SubSeq(t, ps[n] + 1,
                                  IF n < Len(ps) THEN ps[n + 1] - 1 ELSE Len(t)))]]

LeadingSeparators(t) ==
    \A n \in 1..Len(t) : (\A m \in 1..n : t[m] \notin SVGAllCommands) => IsSeparator(t[n])

\* A well-formed path text: separators, then commands, each with as many numerals
\* as its arity.
WellFormed(t) ==
    LET cs == CommandsOf(t) IN
    /\ Len(cs) > 0
    /\ LeadingSeparators(t)
    /\ \A n \in 1..Len(cs) :
        /\ Len(cs[n].args) = Arity(cs[n].letter)
        /\ \A m \in 1..Len(cs[n].args) : IsNumeral(cs[n].args[m])

\* The command a letter and its numbers stand for.
ExpectedPart(letter, v) ==
    CASE letter = "M" -> [kind |-> "SVGDAbsoluteMovePart", Point |-> [X |-> v[1], Y |-> v[2]]]
      [] letter = "m" -> [kind |-> "SVGDRelativeMovePart", Point |-> [X |-> v[1], Y |-> v[2]]]
      [] letter = "L" -> [kind |-> "SVGDAbsoluteLinePart", Point |-> [X |-> v[1], Y |-> v[2]]]
      [] letter = "l" -> [kind |-> "SVGDRelativeLinePart", Point |-> [X |-> v[1], Y |-> v[2]]]
      [] letter = "H" -> [kind |-> "SVGDAbsoluteHorizontalPart", distance |-> v[1]]
      [] letter = "h" -> [kind |-> "SVGDRelativeHorizontalPart", distance |-> v[1]]
      [] letter = "V" -> [kind |-> "SVGDAbsoluteVerticalPart", distance |-> v[1]]
      [] letter = "v" -> [kind |-> "SVGDRelativeVerticalPart", distance |-> v[1]]
      [] letter = "C" -> [kind |-> "SVGDAbsoluteCurvePart",
                          points |-> <<[X |-> v[1], Y |-> v[2]], [X |-> v[3], Y |-> v[4]],
                                       [X |-> v[5], Y |-> v[6]]>>]
      [] letter = "c" -> [kind |-> "SVGDRelativeCurvePart",
                          points |-> <<[X |-> v[1], Y |-> v[2]], [X |-> v[3], Y |-> v[4]],
                                       [X |-> v[5], Y |-> v[6]]>>]
      [] letter \in {"Z", "z"} -> [kind |-> "SVGDClosePart"]

ExpectedParts(t) ==
    LET cs == CommandsOf(t) IN
    [n \in 1..Len(cs) |->
        ExpectedPart(cs[n].letter,
                     [m \in 1..Len(cs[n].args) |-> NumeralValue(cs[n].args[m])])]

ClosePositions(t) == {n \in 1..Len(t) : t[n] \in {"Z", "z"}}

\* The text of an input up to and with its first Close letter.
UpToFirstClose(t) == SubSeq(t, 1, CHOOSE n \in ClosePositions(t) : \A m \in ClosePositions(t) : n <= m)

ParseReturned == pc = "parsed"
ParseSucceeded == pc = "parsed" /\ err = Nil

-----------------------------------------------------------------------------
(* The claims. *)

\* C1: Parse succeeds only by reading a Close command: on every successful return
\* parts is non-empty, its last element is the Close part, no earlier element is a
\* Close part, and the last character read is the first 'Z' or 'z' of the input;
\* so an input whose end is reached before a Close is read returns an error.
C1_SuccessOnlyByClose ==
    /\ ParseSucceeded =>
        /\ Len(parts) > 0
        /\ parts[Len(parts)].kind = "SVGDClosePart"
        /\ \A n \in 1..(Len(parts) - 1) : parts[n].kind # "SVGDClosePart"
        /\ reader.i >= 1
        /\ ClosePositions(Consumed) = {reader.i}
    /\ (ParseReturned /\ ClosePositions(Consumed) = {}) => err # Nil

\* C1 witness: a successful return with commands before the Close.
C1_Witness == ParseSucceeded /\ Len(parts) >= 3

\* C2 (as claimed): data after the Close command is an error, so whenever Parse
\* succeeds, only separators are left in the input.
C2_TrailingDataIsAnError ==
    ParseSucceeded => \A n \in 1..Len(Ahead(reader)) : IsSeparator(Ahead(reader)[n])

\* C3: on success the parts are exactly the commands of the text read, one per
\* command letter, in order, each with as many numbers as its arity (2 for Move
\* and Line, 1 for Horizontal and Vertical, 6 for Curve, 0 for Close) and with the
\* values of its numerals in order.
C3_PartsAreTheCommands ==
    ParseSucceeded =>
        /\ WellFormed(Consumed)
        /\ parts = ExpectedParts(Consumed)

\* C3 witness: a successful parse of a Move with two different numbers and a
\* six-number curve.
C3_Witness ==
    /\ ParseSucceeded
    /\ \E n \in 1..Len(parts) : parts[n].kind = "SVGDAbsoluteCurvePart"
    /\ \E n \in 1..Len(parts) :
        parts[n].kind = "SVGDRelativeMovePart" /\ parts[n].Point.X # parts[n].Point.Y

\* The numeral the text ahead of a reader starts with: an optional sign and the
\* longest run of digits and '.' after it.
RECURSIVE RunLength(_, _)
RunLength(t, n) ==
    IF n <= Len(t) /\ t[n] \in Digits \cup {"."} THEN 1 + RunLength(t, n + 1) ELSE 0

LeadingNumeral(t) ==
    LET sg == IF Len(t) > 0 /\ t[1] \in {"+", "-"} THEN 1 ELSE 0
    IN  SubSeq(t, 1, sg + RunLength(t, sg + 1))

\* The case of C4: a numeral, and a character after it.
NumeralThenTerminator(t) ==
    /\ IsNumeral(LeadingNumeral(t))
    /\ Len(LeadingNumeral(t)) < Len(t)

\* C4: ChompNumber on a stream that starts with a numeral followed by a character
\* that is neither a digit nor '.' returns sign * value ('-' is -1, '+' or no sign
\* is +1) without an error and leaves the cursor at that character.
C4_ChompNumberValueAndCursor ==
    (chomp.op = "ChompNumber" /\ NumeralThenTerminator(Ahead(chomp.before))) =>
        /\ chomp.err = Nil
        /\ chomp.val = NumeralValue(LeadingNumeral(Ahead(chomp.before)))
        /\ chomp.after.i = chomp.before.i + Len(LeadingNumeral(Ahead(chomp.before)))

\* C4 witness: ChompNumber has read a negative numeral with a decimal point.
C4_Witness ==
    /\ chomp.op = "ChompNumber"
    /\ NumeralThenTerminator(Ahead(chomp.before))
    /\ Ahead(chomp.before)[1] = "-"
    /\ DotsOf(LeadingNumeral(Ahead(chomp.before))) # {}
    /\ chomp.val[1] < 0

DoubleDecimalPoint == "double decimal point detected"

\* A numeral with a second '.': the run of digits and '.' after the optional sign
\* holds two of them.
TwoDotsAhead(t) ==
    LET sg == IF Len(t) > 0 /\ t[1] \in {"+", "-"} THEN 1 ELSE 0
    IN  Cardinality({n \in (sg + 1)..(sg + RunLength(t, sg + 1)) : t[n] = "."}) >= 2

\* C5: a numeral with a second '.' makes ChompNumber fail with the
\* double-decimal-point error; Parse returns that error and reads no further
\* command, and ExtractPolygons returns it: from the failure on no polygon is
\* appended, no element is popped and nothing more is read.
C5_LexerErrorAborts ==
    /\ []((chomp.op = "ChompNumber" /\ TwoDotsAhead(Ahead(chomp.before)))
            => /\ chomp.err = DoubleDecimalPoint
               /\ err = DoubleDecimalPoint
               /\ pc \in {"parsed", "returned"}
               /\ (pc = "returned" => xerr = DoubleDecimalPoint))
    /\ [][chomp.err = DoubleDecimalPoint
            => /\ ret' = ret
               /\ stack' = stack
               /\ el' = el
               /\ parts' = parts
               /\ reader' = reader
               /\ pc' = "returned"]_vars

\* C5 witness: ExtractPolygons has returned the error with an element still on
\* the stack.
C5_Witness ==
    /\ pc = "returned"
    /\ xerr = DoubleDecimalPoint
    /\ chomp.op = "ChompNumber"
    /\ TwoDotsAhead(Ahead(chomp.before))
    /\ Len(stack) >= 1

\* C6 (as claimed): ChompNumber on a stream whose next character is none of '+',
\* '-', '.' and the digits fails and leaves the cursor where it was.
C6_LookaheadRestored ==
    (/\ chomp.op = "ChompNumber"
     /\ Len(Ahead(chomp.before)) > 0
     /\ Ahead(chomp.before)[1] \notin Digits \cup {"+", "-", "."})
        => /\ chomp.err # Nil
           /\ chomp.after.i = chomp.before.i

\* The separators the text ahead of a reader starts with.
RECURSIVE SeparatorRun(_, _)
SeparatorRun(t, n) ==
    IF n <= Len(t) /\ IsSeparator(t[n]) THEN 1 + SeparatorRun(t, n + 1) ELSE 0

\* C7 (as claimed): ChompSeperator never fails: it consumes the longest run of
\* white space and commas, which may be empty or reach the end of the input, and
\* returns no error.
C7_SeperatorNeverFails ==
    chomp.op = "ChompSeperator" =>
        /\ chomp.after.i = chomp.before.i + SeparatorRun(Ahead(chomp.before), 1)
        /\ chomp.err = Nil

\* C8 (as claimed): separators between a command letter and its first number are
\* part of the grammar: an input that is well formed up to its first Close is
\* parsed successfully into the commands of that text.
C8_SeparatorAfterCommandAccepted ==
    (/\ ParseReturned
     /\ ClosePositions(reader.s) # {}
     /\ WellFormed(UpToFirstClose(reader.s)))
        => /\ err = Nil
           /\ parts = ExpectedParts(UpToFirstClose(reader.s))

\* What each command emits from the current point, as the specification lists it;
\* a curve emits the samples of its Bezier.
ExpectedEmit(p, cur) ==
    CASE p.kind \in {"SVGDAbsoluteMovePart", "SVGDAbsoluteLinePart"} -> <<p.Point>>
      [] p.kind \in {"SVGDRelativeMovePart", "SVGDRelativeLinePart"} ->
            <<[X |-> RatAdd(cur.X, p.Point.X), Y |-> RatAdd(cur.Y, p.Point.Y)]>>
      [] p.kind = "SVGDAbsoluteHorizontalPart" -> <<[X |-> p.distance, Y |-> cur.Y]>>
      [] p.kind = "SVGDAbsoluteVerticalPart" -> <<[X |-> cur.X, Y |-> p.distance]>>
      [] p.kind = "SVGDRelativeHorizontalPart" ->
            <<[X |-> RatAdd(cur.X, p.distance), Y |-> cur.Y]>>
      [] p.kind = "SVGDRelativeVerticalPart" ->
            <<[X |-> cur.X, Y |-> RatAdd(cur.Y, p.distance)]>>
      [] p.kind = "SVGDClosePart" -> <<>>
      [] OTHER -> PartLinearize(p, cur, CurveResolution)

\* The left fold over the first n commands: the start handed to each (the last
\* point emitted so far, the zero point if there is none) and the points emitted.
RECURSIVE Fold(_, _)
Fold(ps, n) ==
    IF n = 0 THEN [starts |-> <<>>, points |-> <<>>]
    ELSE LET before == Fold(ps, n - 1)
             cur == IF Len(before.points) = 0 THEN [X |-> <<0, 1>>, Y |-> <<0, 1>>]
                    ELSE before.points[Len(before.points)]
         IN  [starts |-> Append(before.starts, cur),
              points |-> before.points \o ExpectedEmit(ps[n], cur)]

\* C9: Linearize is a left fold that threads the current point: the start handed
\* to command n is the last point emitted by the commands before it, or (0,0) if
\* none has emitted one, each command emits what the specification lists for it,
\* and the result is the concatenation of the outputs in command order.
C9_LinearizeIsALeftFold ==
    pc \in {"linearize", "normalize"} =>
        /\ starts = Fold(parts, k).starts
        /\ exterior = Fold(parts, k).points
        /\ (pc = "normalize" => k = Len(parts))

\* C9 witness: Linearize is through a path with relative and one-axis commands
\* that emitted points away from the origin.
C9_Witness ==
    /\ pc = "normalize"
    /\ k = Len(parts)
    /\ \E n \in 1..Len(parts) : parts[n].kind = "SVGDRelativeLinePart"
    /\ \E n \in 1..Len(parts) : parts[n].kind = "SVGDAbsoluteHorizontalPart"
    /\ \E n \in 2..Len(starts) : starts[n] # [X |-> <<0, 1>>, Y |-> <<0, 1>>]
    /\ Len(exterior) >= 2

IsCurve(p) == p.kind \in {"SVGDAbsoluteCurvePart", "SVGDRelativeCurvePart"}

\* The endpoint of a curve command from the current point.
CurveEnd(p, cur) ==
    IF p.kind = "SVGDAbsoluteCurvePart" THEN p.points[3]
    ELSE [X |-> RatAdd(cur.X, p.points[3].X), Y |-> RatAdd(cur.Y, p.points[3].Y)]

\* The number of points a command is to emit at the resolution 1/10: 10 + 1 for
\* a curve, none for Close, one for every other command.
ClaimedCount(p) == IF IsCurve(p) THEN 11 ELSE IF p.kind = "SVGDClosePart" THEN 0 ELSE 1

RECURSIVE ClaimedTotal(_, _)
ClaimedTotal(ps, n) == IF n = 0 THEN 0 ELSE ClaimedTotal(ps, n - 1) + ClaimedCount(ps[n])

\* C10 (as claimed): a curve is sampled at t = 0, res, 2*res, ... < 1 and once more
\* at t = 1: at the resolution 1/10 it emits exactly 11 points, the first the
\* current point and the last the curve's endpoint.
C10_CurveSampleCount ==
    (pc = "linearize" /\ k >= 1 /\ IsCurve(parts[k])) =>
        /\ Len(exterior) = ClaimedTotal(parts, k)
        /\ exterior[Len(exterior)] = CurveEnd(parts[k], starts[k])
        /\ exterior[Len(exterior) - 11 + 1] = starts[k]

IsMove(p) == p.kind \in {"SVGDAbsoluteMovePart", "SVGDRelativeMovePart"}

\* No point of the ring equals the next one around it, the first following the last.
NoCyclicRepeat(r) == \A n \in 1..Len(r) : r[n] # r[(n % Len(r)) + 1]

\* C11 (as claimed): for a path that parses, the linearized sequence starts at the
\* target of its Move command, and after RemoveDuplicates no two cyclically
\* adjacent points of the ring are equal, the last and the first among them.
C11_NoCyclicallyAdjacentRepeats ==
    /\ (pc = "normalize" /\ Len(parts) > 0 /\ IsMove(parts[1]))
            => exterior[1] = parts[1].Point
    /\ (pc = "triangulate" /\ Len(exterior) >= 2) => NoCyclicRepeat(exterior)

\* The rotation of a ring that starts at its point n (0-based).
Rotate(r, n) == [j \in 1..Len(r) |-> r[((j - 1 + n) % Len(r)) + 1]]

Small(r) == \A n \in 1..Len(r) : r[n] \in SmallPoints64

\* A coordinate of such a ring as an integer, in units of 2^-28, and the integer
\* v, in units of 2^-56, as a float64.
CoordInt(v) == v.s * v.m.hi

FloatOfInt(v) == Float(IF v < 0 THEN -1 ELSE 1, [hi |-> 0, lo |-> IF v < 0 THEN -v ELSE v])

\* The sum over the cyclically adjacent pairs (p_n, p_n+1) of
\* p_n.X * p_n+1.Y - p_n+1.X * p_n.Y, in integers, from the pair n on.
RECURSIVE Shoelace(_, _)
Shoelace(r, n) ==
    IF n > Len(r) THEN 0
    ELSE LET p == r[n]
             q == r[IF n = Len(r) THEN 1 ELSE n + 1]
         IN  CoordInt(p.X) * CoordInt(q.Y) - CoordInt(q.X) * CoordInt(p.Y)
                + Shoelace(r, n + 1)

C13_WindingCorrectionIdempotent ==
    /\ Len(applied) >= 1 => ~FloatLess(RingArea64(fring), FloatZero)
    /\ \A n \in 2..Len(applied) : ~applied[n].reversed
    /\ \A n \in 1..Len(applied) :
            FloatLess(FloatZero, applied[n].area) => ~applied[n].reversed

\* A builder has returned its polygon to ExtractPolygons, which appended it.
Built(names) == pc = "push" /\ el.Name \in names /\ Len(ret) > 0

LastPolygon == ret[Len(ret)]

\* C14 (as claimed): the rectangle builder returns the corners (x,y), (x,y+h),
\* (x+w,y+h), (x+w,y) with the triangles {0,1,2} and {2,3,0}, and for a positive
\* width and height this exterior is counter-clockwise by the program's own
\* test: its Ring.Area is positive.
C14_RectIsCounterClockwise ==
    Built({"rect"}) =>
        LET ex == NumeralValue(el.Attributes.x)
            ey == NumeralValue(el.Attributes.y)
            w == NumeralValue(el.Attributes.width)
            h == NumeralValue(el.Attributes.height)
        IN  /\ LastPolygon.Exterior =
                    << [X |-> ex, Y |-> ey], [X |-> ex, Y |-> RatAdd(ey, h)],
                       [X |-> RatAdd(ex, w), Y |-> RatAdd(ey, h)],
                       [X |-> RatAdd(ex, w), Y |-> ey] >>
            /\ LastPolygon.Triangles = << <<0, 1, 2>>, <<2, 3, 0>> >>
            /\ (RatLess(Rat(0), w) /\ RatLess(Rat(0), h))
                    => RatLess(Rat(0), RingArea(LastPolygon.Exterior))

\* The positions (0-based) of a point value in a ring.
PositionsOf(r, p) == {n \in 0..(Len(r) - 1) : r[n + 1] = p}

Least(S) == CHOOSE n \in S : \A m \in S : n <= m

\* C15 (as claimed): in the path and point-list builders a triangle corner
\* resolves to the first position at which its point value occurs in the
\* exterior ring.
C15_FirstSeenIndex ==
    Built({"path", "polygon"}) =>
        \A n \in 1..Len(tris) : \A j \in 1..3 :
            PositionsOf(exterior, tris[n][j]) # {}
                => LastPolygon.Triangles[n][j] = Least(PositionsOf(exterior, tris[n][j]))

\* C16 (as claimed): a triangle corner that is no point of the exterior ring is
\* fatal: a builder that returns a polygon has found every corner in the ring.
C16_LookupMissIsFatal ==
    Built({"path", "polygon"}) =>
        \A n \in 1..Len(tris) : \A j \in 1..3 : PositionsOf(exterior, tris[n][j]) # {}

\* The corners of every triangle are the points at three different positions
\* of the ring.
FromPositions(ts, r) ==
    \A n \in 1..Len(ts) :
        \E a, b, d \in 1..Len(r) :
            /\ a # b /\ a # d /\ b # d
            /\ ts[n] = <<r[a], r[b], r[d]>>

\* C17 (as claimed): in every polygon a builder returns, the triangulator
\* returning corners at three different positions of the ring, the three
\* indices of every triangle are pairwise different and each is at least 0 and
\* less than len(Exterior).
C17_TriangleIndicesDistinctInRange ==
    (Built({"path", "polygon", "rect"})
        /\ (el.Name # "rect" => FromPositions(tris, exterior))) =>
        \A n \in 1..Len(LastPolygon.Triangles) :
            LET t == LastPolygon.Triangles[n] IN
            /\ t[1] # t[2] /\ t[1] # t[3] /\ t[2] # t[3]
            /\ \A j \in 1..3 : 0 <= t[j] /\ t[j] < Len(LastPolygon.Exterior)

IsHex(t) == \A n \in 1..Len(t) : t[n] \in HexDigits

\* '#' followed by n hex digits.
IsHashColor(t, n) == Len(t) = n + 1 /\ t[1] = "#" /\ IsHex(SubSeq(t, 2, Len(t)))

\* "#abc" written with six digits: "#aabbcc".
Doubled(t) == <<t[1], t[2], t[2], t[3], t[3], t[4], t[4]>>

ColorParsed == pc = "color_done"

Unit(v) == ~RatLess(v, Rat(0)) /\ ~RatLess(Rat(1), v)

\* C18 (as claimed): a full-intensity channel is 1.0: "#FF0000" gives R = 1,
\* G = 0, B = 0; "#F00" gives the same Color; and every "#abc" gives the channel
\* values of "#aabbcc", each in [0, 1].
C18_FullIntensityAndExpansion ==
    /\ (ColorParsed /\ colText \in {<<"#", "F", "F", "0", "0", "0", "0">>,
                                     <<"#", "F", "0", "0">>})
            => /\ ~color.panic /\ color.err = Nil
               /\ color.c.R = <<1, 1>> /\ color.c.G = <<0, 1>> /\ color.c.B = <<0, 1>>
    /\ (ColorParsed /\ IsHashColor(colText, 3))
            => /\ ~color.panic /\ color.err = Nil
               /\ color.c = ParseColor(Doubled(colText)).c
               /\ Unit(color.c.R) /\ Unit(color.c.G) /\ Unit(color.c.B)

\* C19 (as claimed): ParseColor returns a Color for '#' followed by 3 or by 6 hex
\* digits, and for every other string it returns the unrecognized-color-format
\* error, not a Color and not another failure.
C19_AcceptsExactlyHashColors ==
    ColorParsed =>
        IF IsHashColor(colText, 3) \/ IsHashColor(colText, 6)
        THEN ~color.panic /\ color.err = Nil
        ELSE ~color.panic /\ color.err = UnknownColorFormat

\* The tree ExtractPolygons was called with: the first element it visits.
WalkRoot == IF visited = <<>> THEN stack[1] ELSE visited[1]

\* Pre-order with the children of every element taken last to first, and
\* pre-order in document order.
RECURSIVE ReversedPreOrder(_), ReversedFrom(_, _), DocumentOrder(_), DocumentFrom(_, _)
ReversedPreOrder(t) == <<t>> \o ReversedFrom(t.Children, Len(t.Children))
ReversedFrom(cs, j) == IF j = 0 THEN <<>> ELSE ReversedPreOrder(cs[j]) \o ReversedFrom(cs, j - 1)
DocumentOrder(t) == <<t>> \o DocumentFrom(t.Children, 1)
DocumentFrom(cs, j) == IF j > Len(cs) THEN <<>> ELSE DocumentOrder(cs[j]) \o DocumentFrom(cs, j + 1)

IsPrefix(a, b) == Len(a) <= Len(b) /\ a = SubSeq(b, 1, Len(a))

IsShape(e) == e.Name \in {"polygon", "rect", "path"}
ShapesOf(es) == SelectSeq(es, IsShape)

\* The fill of the polygon built from e.
FillOf(e) == IF e.Attributes.fill # <<>> THEN MustParseColor(e.Attributes.fill).c ELSE ZeroColor

\* The polygons so far are those of the shapes visited, in the order of the visits.
EmittedInOrder(n) ==
    /\ Len(ret) = n
    /\ \A j \in 1..n : ret[j].Fill = FillOf(ShapesOf(visited)[j])

Completed == pc = "returned" /\ xerr = Nil

\* C20 (as claimed), the state ExtractPolygons ends in: every element of the tree
\* has been visited exactly once, a parent before its descendants, in reversed-
\* sibling pre-order, and the polygons are those of the shapes in that order.
\* (That it ends at all, the other half of the claim, is part of
\* C20_WalkUntilFailure.)
C20_VisitsEveryElement ==
    Terminated =>
        /\ visited = ReversedPreOrder(WalkRoot)
        /\ EmittedInOrder(Len(ShapesOf(visited)))

\* C20 (amended): ExtractPolygons terminates; the elements visited so far are
\* always the first ones of the reversed-sibling pre-order of the tree (so each
\* is visited at most once and after its parent) and the polygons those of the
\* shapes visited, in that order; when it returns without an error it has
\* visited every element; and when it returns an error or panics, that is at
\* the shape visited last, without a polygon for it, the rest left unvisited.
C20_WalkUntilFailure ==
    /\ <>Terminated
    /\ [](IsPrefix(visited, ReversedPreOrder(WalkRoot)))
    /\ [](Completed => /\ visited = ReversedPreOrder(WalkRoot)
                       /\ EmittedInOrder(Len(ShapesOf(visited))))
    /\ []((Terminated /\ ~Completed) =>
            /\ visited # <<>>
            /\ el = visited[Len(visited)]
            /\ IsShape(el)
            /\ EmittedInOrder(Len(ShapesOf(visited)) - 1))
    /\ []((pc = "loop") => EmittedInOrder(Len(ShapesOf(visited))))

\* A walk that returned without an error from a tree whose reversed-sibling
\* pre-order is not its document order, with polygons of two elements.
C20_Witness ==
    /\ Completed
    /\ Len(visited) >= 4
    /\ visited # DocumentOrder(WalkRoot)
    /\ Len(ret) >= 2
    /\ ret[1].Fill # ret[2].Fill

=============================================================================
